---- MODULE Spec2Model ----
(***************************************************************************)
(* Model of the image-preview loading engine of medars                     *)
(* (src/src/ui/app.rs): the App state, its public operations               *)
(* (process_image_load_events, update_selection, preload_nearby_images,    *)
(* handle_input), the background decode tasks they spawn and the mpsc      *)
(* channel the tasks report on.  The render loop calls the operations once *)
(* per frame in the order drain, selection controller, preloader, input.   *)
(*                                                                         *)
(* Option<T> is modelled as a sequence: None is <<>>, Some(x) is <<x>>.     *)
(* A path is the pair <<dir, file>> built by dir.join(file); a file is a   *)
(* record [name, ext], ext = "" standing for "no extension".               *)
(***************************************************************************)
EXTENDS Integers, Sequences, FiniteSets, Bags, TLC

\* ---------------------------------------------------------------- bounds
\* Longest directory listing explored.
MaxFiles == 2
\* Largest max_scroll value handed to handle_input.
MaxScroll == 1

\* ------------------------------------------------------ program constants
\* usize::MAX, the initial previous_selected ("Force initial load").  Only
\* compared for equality, so any value no index can take stands for it.
USIZE_MAX == 2147483647
\* let preload_range: usize = 2;
preload_range == 2
\* let max_concurrent_loads = 2;
max_concurrent_loads == 2
\* if self.failed_images.len() > 20
FailedSweepLimit == 20
\* if self.loaded_images.len() > 50
LoadedSweepLimit == 50

\* ------------------------------------------------------------- Option<T>
None == <<>>
Some(x) == <<x>>

\* ------------------------------------------------------------ directory
\* The directory the browser was opened on.
Dir == "dir"

\* Two directories' entries in listing order: one that starts with three
\* images, one that mixes images with files that are not images.
Images_dir ==
  << [name |-> "a", ext |-> "jpg"],
     [name |-> "b", ext |-> "png"],
     [name |-> "c", ext |-> "GIF"],
     [name |-> "notes", ext |-> "txt"],
     [name |-> "README", ext |-> ""] >>

Mixed_dir ==
  << [name |-> "notes", ext |-> "txt"],
     [name |-> "a", ext |-> "jpg"],
     [name |-> "README", ext |-> ""],
     [name |-> "b", ext |-> "png"],
     [name |-> "c", ext |-> "GIF"] >>

Min(a, b) == IF a < b THEN a ELSE b

\* The listings App.files can hold: the first entries, at most MaxFiles, of
\* either directory.
FileLists ==
  { SubSeq(d, 1, n) : d \in {Images_dir, Mixed_dir},
                      n \in 0..Min(MaxFiles, Len(Images_dir)) }

\* dir.join(file).to_string_lossy().to_string()
join(dir, file) == <<dir, file>>

\* ext.to_string_lossy().to_lowercase() on the extensions that occur.
to_lowercase(ext) ==
  CASE ext = "JPG" -> "jpg"
    [] ext = "PNG" -> "png"
    [] ext = "GIF" -> "gif"
    [] OTHER -> ext

ImageExtensions == {"jpg", "jpeg", "png", "gif", "bmp", "tiff", "tif", "webp"}

\* App::is_image_file
is_image_file(path) ==
  IF path[2].ext # ""
    THEN to_lowercase(path[2].ext) \in ImageExtensions
    ELSE FALSE

\* files[i] with the code's 0-based index.
FileAt(fs, i) == fs[i + 1]

\* No decode worker is being followed.
NoDecode == [pc |-> "none"]

\* ------------------------------------------------------------ the state
VARIABLES
  files,                 \* App.files
  selected,              \* App.selected
  previous_selected,     \* App.previous_selected
  image_path,            \* App.image_path : Option<String>
  image_state,           \* App.image_state : Option<StatefulProtocol>
  cached_metadata_text,  \* App.cached_metadata_text
  cached_metadata,       \* App.image_utils.cached_metadata : Option<(name, text)>
  focused_panel,         \* App.focused_panel
  mid_scroll,            \* App.mid_scroll
  running,               \* App.running
  loading_images,        \* App.loading_images
  failed_images,         \* App.failed_images
  loaded_images,         \* App.loaded_images
  pending_current_load,  \* App.pending_current_load : Option<String>
  last_loaded_path,      \* App.last_loaded_path : Option<String>
  image_picker,          \* App.image_picker.is_some()
  workers,               \* bag of spawned decode tasks that have not sent yet
  channel,               \* events sent on image_load_sender, not yet received
  phase,                 \* the step the render loop is about to take
  raw_mode,              \* the terminal is in raw input mode
  alternate_screen,      \* the terminal shows the alternate screen
  decode                 \* one decode worker: its request, file and progress

vars == << files, selected, previous_selected, image_path, image_state,
           cached_metadata_text, cached_metadata, focused_panel, mid_scroll,
           running, loading_images, failed_images, loaded_images,
           pending_current_load, last_loaded_path, image_picker, workers,
           channel, phase, raw_mode, alternate_screen, decode >>

\* The App fields together with the tasks and the channel, as one record the
\* operations below transform.
Self ==
  [ files |-> files, selected |-> selected,
    previous_selected |-> previous_selected, image_path |-> image_path,
    image_state |-> image_state, cached_metadata_text |-> cached_metadata_text,
    cached_metadata |-> cached_metadata, focused_panel |-> focused_panel,
    mid_scroll |-> mid_scroll, running |-> running,
    loading_images |-> loading_images, failed_images |-> failed_images,
    loaded_images |-> loaded_images,
    pending_current_load |-> pending_current_load,
    last_loaded_path |-> last_loaded_path, image_picker |-> image_picker,
    workers |-> workers, channel |-> channel ]

\* The next state is the record t.
Becomes(t) ==
  /\ files' = t.files
  /\ selected' = t.selected
  /\ previous_selected' = t.previous_selected
  /\ image_path' = t.image_path
  /\ image_state' = t.image_state
  /\ cached_metadata_text' = t.cached_metadata_text
  /\ cached_metadata' = t.cached_metadata
  /\ focused_panel' = t.focused_panel
  /\ mid_scroll' = t.mid_scroll
  /\ running' = t.running
  /\ loading_images' = t.loading_images
  /\ failed_images' = t.failed_images
  /\ loaded_images' = t.loaded_images
  /\ pending_current_load' = t.pending_current_load
  /\ last_loaded_path' = t.last_loaded_path
  /\ image_picker' = t.image_picker
  /\ workers' = t.workers
  /\ channel' = t.channel
  /\ UNCHANGED <<raw_mode, alternate_screen, decode>>

\* App::new with graphics capability `picker`, followed by the caller
\* filling in the listing fs.
AppNew(fs, picker) ==
  /\ files = fs
  /\ selected = 0
  /\ previous_selected = USIZE_MAX
  /\ image_path = None
  /\ image_state = None
  /\ cached_metadata_text = [kind |-> "", file |-> None]
  /\ cached_metadata = None
  /\ focused_panel = "Left"
  /\ mid_scroll = 0
  /\ running = TRUE
  /\ loading_images = {}
  /\ failed_images = {}
  /\ loaded_images = {}
  /\ pending_current_load = None
  /\ last_loaded_path = None
  /\ image_picker = picker
  /\ workers = EmptyBag
  /\ channel = <<>>
  /\ phase = "drain"
  /\ raw_mode = FALSE
  /\ alternate_screen = FALSE
  /\ decode = NoDecode

Init == \E fs \in FileLists, picker \in BOOLEAN : AppNew(fs, picker)

\* ------------------------------------------------------- decode requests
\* tokio::spawn of a decode task for path p.
Task(p, tier) == [file_path |-> p, tier |-> tier]

\* start_background_image_load that spawns without asking for the picker.
start_background_image_load_without_picker(s, p) ==
  IF p \in s.loading_images THEN s
  ELSE [s EXCEPT !.failed_images = @ \ {p},
                 !.loaded_images = @ \ {p},
                 !.loading_images = @ \cup {p},
                 !.workers = @ (+) SetToBag({Task(p, "Normal")})]

\* start_background_image_load that forgets to record the path as Loading.
start_background_image_load_unrecorded(s, p) ==
  IF p \in s.loading_images THEN s
  ELSE IF ~s.image_picker THEN s
  ELSE [s EXCEPT !.failed_images = @ \ {p},
                 !.loaded_images = @ \ {p},
                 !.workers = @ (+) SetToBag({Task(p, "Normal")})]

\* App::start_background_image_load
start_background_image_load(s, p) ==
  IF p \in s.loading_images THEN s
  ELSE IF ~s.image_picker THEN s
  ELSE [s EXCEPT !.failed_images = @ \ {p},
                 !.loaded_images = @ \ {p},
                 !.loading_images = @ \cup {p},
                 !.workers = @ (+) SetToBag({Task(p, "Normal")})]

\* start_priority_image_load that drops the path from Loaded, as the Normal
\* tier does.
start_priority_image_load_evicting(s, p) ==
  IF p \in s.loading_images THEN s
  ELSE IF ~s.image_picker THEN s
  ELSE [s EXCEPT !.failed_images = @ \ {p},
                 !.loaded_images = @ \ {p},
                 !.loading_images = @ \cup {p},
                 !.workers = @ (+) SetToBag({Task(p, "Priority")})]

\* App::start_priority_image_load
start_priority_image_load(s, p) ==
  IF p \in s.loading_images THEN s
  ELSE IF ~s.image_picker THEN s
  ELSE [s EXCEPT !.failed_images = @ \ {p},
                 !.loading_images = @ \cup {p},
                 !.workers = @ (+) SetToBag({Task(p, "Priority")})]

\* The three values `result` can take in the spawned task:
\* Ok(Ok(protocol)), Ok(Err(e)) and Err(join error).
TaskResults == {"OkOk", "OkErr", "JoinErr"}

\* The match on `result` at the end of the spawned task: the event sent.
\* The protocol is tagged with the path and tier it was decoded from.  The
\* text of LoadError.error is never read by the receiver (`error: _`), so
\* only the arm that produced it is kept apart here, not in the event.
task_event(w, result) ==
  CASE result = "OkOk" ->
         [kind |-> "LoadComplete", file_path |-> w.file_path,
          protocol |-> [of |-> w.file_path, tier |-> w.tier]]
    [] result = "OkErr" ->
         [kind |-> "LoadError", file_path |-> w.file_path,
          error |-> "error"]
    [] result = "JoinErr" ->
         [kind |-> "LoadError", file_path |-> w.file_path,
          error |-> "error"]

\* task_finish whose join-error arm sends nothing.
task_finish_silent_on_join_error(s, w, result) ==
  IF result = "JoinErr"
    THEN [s EXCEPT !.workers = @ (-) SetToBag({w})]
    ELSE [s EXCEPT !.workers = @ (-) SetToBag({w}),
                   !.channel = Append(@, task_event(w, result))]

\* The end of a spawned task w whose decode returned `result`: the task is
\* gone and its one event is on the channel.
task_finish(s, w, result) ==
  [s EXCEPT !.workers = @ (-) SetToBag({w}),
            !.channel = Append(@, task_event(w, result))]

\* ------------------------------------------------------------ the drain
\* process_event whose LoadError arm leaves the path in Loading.
process_event_keeps_loading(s, ev) ==
  IF ev.kind = "LoadComplete"
    THEN LET cur == s.image_path # None /\ s.image_path[1] = ev.file_path
         IN [s EXCEPT !.loaded_images = @ \cup {ev.file_path},
                      !.last_loaded_path = Some(ev.file_path),
                      !.image_state = IF cur THEN Some(ev.protocol) ELSE @,
                      !.pending_current_load = IF cur THEN None ELSE @,
                      !.loading_images = @ \ {ev.file_path}]
    ELSE LET cur == s.image_path # None /\ s.image_path[1] = ev.file_path
         IN [s EXCEPT !.failed_images = @ \cup {ev.file_path},
                      !.pending_current_load = IF cur THEN None ELSE @]

\* process_event whose LoadError arm stops the loop.
process_event_fatal(s, ev) ==
  IF ev.kind = "LoadComplete"
    THEN LET cur == s.image_path # None /\ s.image_path[1] = ev.file_path
         IN [s EXCEPT !.loaded_images = @ \cup {ev.file_path},
                      !.last_loaded_path = Some(ev.file_path),
                      !.image_state = IF cur THEN Some(ev.protocol) ELSE @,
                      !.pending_current_load = IF cur THEN None ELSE @,
                      !.loading_images = @ \ {ev.file_path}]
    ELSE LET cur == s.image_path # None /\ s.image_path[1] = ev.file_path
         IN [s EXCEPT !.failed_images = @ \cup {ev.file_path},
                      !.loading_images = @ \ {ev.file_path},
                      !.pending_current_load = IF cur THEN None ELSE @,
                      !.running = FALSE]

\* process_event that installs the handle whatever path is selected.
process_event_installs_always(s, ev) ==
  IF ev.kind = "LoadComplete"
    THEN LET cur == s.image_path # None /\ s.image_path[1] = ev.file_path
         IN [s EXCEPT !.loaded_images = @ \cup {ev.file_path},
                      !.last_loaded_path = Some(ev.file_path),
                      !.image_state = Some(ev.protocol),
                      !.pending_current_load = IF cur THEN None ELSE @,
                      !.loading_images = @ \ {ev.file_path}]
    ELSE LET cur == s.image_path # None /\ s.image_path[1] = ev.file_path
         IN [s EXCEPT !.failed_images = @ \cup {ev.file_path},
                      !.loading_images = @ \ {ev.file_path},
                      !.pending_current_load = IF cur THEN None ELSE @]

\* process_event whose LoadError arm drops the active handle.
process_event_drops_handle(s, ev) ==
  IF ev.kind = "LoadComplete"
    THEN LET cur == s.image_path # None /\ s.image_path[1] = ev.file_path
         IN [s EXCEPT !.loaded_images = @ \cup {ev.file_path},
                      !.last_loaded_path = Some(ev.file_path),
                      !.image_state = IF cur THEN Some(ev.protocol) ELSE @,
                      !.pending_current_load = IF cur THEN None ELSE @,
                      !.loading_images = @ \ {ev.file_path}]
    ELSE LET cur == s.image_path # None /\ s.image_path[1] = ev.file_path
         IN [s EXCEPT !.failed_images = @ \cup {ev.file_path},
                      !.loading_images = @ \ {ev.file_path},
                      !.pending_current_load = IF cur THEN None ELSE @,
                      !.image_state = IF cur THEN None ELSE @]

\* process_event that clears the pending-current marker on every event.
process_event_clears_pending(s, ev) ==
  IF ev.kind = "LoadComplete"
    THEN LET cur == s.image_path # None /\ s.image_path[1] = ev.file_path
         IN [s EXCEPT !.loaded_images = @ \cup {ev.file_path},
                      !.last_loaded_path = Some(ev.file_path),
                      !.image_state = IF cur THEN Some(ev.protocol) ELSE @,
                      !.pending_current_load = None,
                      !.loading_images = @ \ {ev.file_path}]
    ELSE LET cur == s.image_path # None /\ s.image_path[1] = ev.file_path
         IN [s EXCEPT !.failed_images = @ \cup {ev.file_path},
                      !.loading_images = @ \ {ev.file_path},
                      !.pending_current_load = None]

\* The receive loop deciding "current" by the pending-current marker instead
\* of the selected path.
process_event_compares_pending(s, ev) ==
  IF ev.kind = "LoadComplete"
    THEN LET cur == s.pending_current_load = Some(ev.file_path)
         IN [s EXCEPT !.loaded_images = @ \cup {ev.file_path},
                      !.last_loaded_path = Some(ev.file_path),
                      !.image_state = IF cur THEN Some(ev.protocol) ELSE @,
                      !.pending_current_load = IF cur THEN None ELSE @,
                      !.loading_images = @ \ {ev.file_path}]
    ELSE LET cur == s.pending_current_load = Some(ev.file_path)
         IN [s EXCEPT !.failed_images = @ \cup {ev.file_path},
                      !.loading_images = @ \ {ev.file_path},
                      !.pending_current_load = IF cur THEN None ELSE @]

\* process_event whose LoadError arm also drops the path from Loaded.
process_event_failure_evicts(s, ev) ==
  IF ev.kind = "LoadComplete"
    THEN LET cur == s.image_path # None /\ s.image_path[1] = ev.file_path
         IN [s EXCEPT !.loaded_images = @ \cup {ev.file_path},
                      !.last_loaded_path = Some(ev.file_path),
                      !.image_state = IF cur THEN Some(ev.protocol) ELSE @,
                      !.pending_current_load = IF cur THEN None ELSE @,
                      !.loading_images = @ \ {ev.file_path}]
    ELSE LET cur == s.image_path # None /\ s.image_path[1] = ev.file_path
         IN [s EXCEPT !.failed_images = @ \cup {ev.file_path},
                      !.loaded_images = @ \ {ev.file_path},
                      !.loading_images = @ \ {ev.file_path},
                      !.pending_current_load = IF cur THEN None ELSE @]

\* One iteration of the receive loop: the match on one event.
process_event(s, ev) ==
  IF ev.kind = "LoadComplete"
    THEN LET cur == s.image_path # None /\ s.image_path[1] = ev.file_path
         IN [s EXCEPT !.loaded_images = @ \cup {ev.file_path},
                      !.last_loaded_path = Some(ev.file_path),
                      !.image_state = IF cur THEN Some(ev.protocol) ELSE @,
                      !.pending_current_load = IF cur THEN None ELSE @,
                      !.loading_images = @ \ {ev.file_path}]
    ELSE LET cur == s.image_path # None /\ s.image_path[1] = ev.file_path
         IN [s EXCEPT !.failed_images = @ \cup {ev.file_path},
                      !.loading_images = @ \ {ev.file_path},
                      !.pending_current_load = IF cur THEN None ELSE @]

\* The receive loop with a blocking receive: on an empty channel it waits
\* for a running task to send and handles that event too.
RECURSIVE process_image_load_events_blocking(_)
process_image_load_events_blocking(s) ==
  IF s.channel # <<>>
    THEN process_image_load_events_blocking(
           process_event([s EXCEPT !.channel = Tail(@)], Head(s.channel)))
    ELSE IF s.workers # EmptyBag
           THEN LET w == CHOOSE w \in BagToSet(s.workers) : TRUE
                IN process_image_load_events_blocking(task_finish(s, w, "OkOk"))
           ELSE s

\* App::process_image_load_events: receive until try_recv finds nothing.
RECURSIVE process_image_load_events(_)
process_image_load_events(s) ==
  IF s.channel = <<>> THEN s
  ELSE process_image_load_events(
         process_event([s EXCEPT !.channel = Tail(@)], Head(s.channel)))

\* --------------------------------------------------------- metadata text
\* The text shown for file f: the provider's table, or the error string.
MetadataText(f, ok) ==
  IF ok THEN [kind |-> "metadata", file |-> Some(f)]
        ELSE [kind |-> "Error reading metadata for: ", file |-> Some(f)]

\* get_metadata_for_display that asks the provider every time.
get_metadata_for_display_uncached(cache, f, ok) ==
  <<MetadataText(f, ok), Some(<<f, MetadataText(f, ok)>>)>>

\* ImageUtils::get_metadata_for_display: the text returned (left) and the
\* cache afterwards (right).  ok is the provider's answer, were it asked.
get_metadata_for_display(cache, f, ok) ==
  IF cache # None /\ cache[1][1] = f
    THEN <<cache[1][2], cache>>
    ELSE <<MetadataText(f, ok), Some(<<f, MetadataText(f, ok)>>)>>

\* ------------------------------------------------- selection controller
\* The load decision without the pending-current marker.
load_decision_unmarked(s, p) ==
  IF p \in s.loaded_images
    THEN IF p \notin s.loading_images
           THEN start_priority_image_load(s, p)
           ELSE s
  ELSE IF p \notin s.loading_images /\ p \notin s.failed_images
    THEN start_background_image_load(s, p)
  ELSE IF p \in s.failed_images
    THEN LET r == [s EXCEPT !.failed_images = @ \ {p}]
         IN IF p \notin r.loading_images
              THEN start_background_image_load(r, p)
              ELSE r
  ELSE s

\* The load decision without the retry of a failed path.
load_decision_no_retry(s, p) ==
  IF p \in s.loaded_images
    THEN IF p \notin s.loading_images
           THEN start_priority_image_load([s EXCEPT !.pending_current_load = Some(p)], p)
           ELSE s
  ELSE IF p \notin s.loading_images /\ p \notin s.failed_images
    THEN start_background_image_load([s EXCEPT !.pending_current_load = Some(p)], p)
  ELSE s

\* The load decision that reloads a Loaded path like a new one.
load_decision_reload_as_normal(s, p) ==
  IF p \notin s.loading_images /\ p \notin s.failed_images
    THEN start_background_image_load([s EXCEPT !.pending_current_load = Some(p)], p)
  ELSE IF p \in s.failed_images
    THEN LET r == [s EXCEPT !.failed_images = @ \ {p}]
         IN IF p \notin r.loading_images
              THEN start_background_image_load([r EXCEPT !.pending_current_load = Some(p)], p)
              ELSE r
  ELSE s

\* The load decision of update_selection for an image path p.
load_decision(s, p) ==
  IF p \in s.loaded_images
    THEN IF p \notin s.loading_images
           THEN start_priority_image_load(
                  [s EXCEPT !.pending_current_load = Some(p)], p)
           ELSE s
  ELSE IF p \notin s.loading_images /\ p \notin s.failed_images
    THEN start_background_image_load(
           [s EXCEPT !.pending_current_load = Some(p)], p)
  ELSE IF p \in s.failed_images
    THEN LET r == [s EXCEPT !.failed_images = @ \ {p}]
         IN IF p \notin r.loading_images
              THEN start_background_image_load(
                     [r EXCEPT !.pending_current_load = Some(p)], p)
              ELSE r
  ELSE s

\* The clearing decision that clears on every image selection.
clear_decision_always(s, p) == [s EXCEPT !.image_state = None]

\* let should_clear_state = ...; if should_clear_state { image_state = None }
clear_decision(s, p) ==
  IF s.last_loaded_path # Some(p) \/ p \notin s.loaded_images
    THEN [s EXCEPT !.image_state = None]
    ELSE s

\* update_selection that resets the scroll offset on every pass.
update_selection_always_resets_scroll(s, ok) ==
  IF s.selected # s.previous_selected
    THEN LET t ==
               IF s.files # <<>> /\ s.selected < Len(s.files)
                 THEN LET f == FileAt(s.files, s.selected)
                          p == join(Dir, f)
                          m == get_metadata_for_display(s.cached_metadata, f, ok)
                          u == [s EXCEPT !.cached_metadata_text = m[1],
                                         !.cached_metadata = m[2],
                                         !.image_path = Some(p)]
                      IN IF is_image_file(p)
                           THEN load_decision(clear_decision(u, p), p)
                           ELSE u
                 ELSE [s EXCEPT !.cached_metadata_text =
                                   [kind |-> "No files available", file |-> None],
                                !.image_path = None,
                                !.image_state = None]
         IN [t EXCEPT !.previous_selected = s.selected, !.mid_scroll = 0]
    ELSE [s EXCEPT !.mid_scroll = 0]

\* update_selection that records the index and resets the scroll offset only
\* in the branch for a selection within the listing.
update_selection_records_in_branch(s, ok) ==
  IF s.selected # s.previous_selected
    THEN IF s.files # <<>> /\ s.selected < Len(s.files)
           THEN LET f == FileAt(s.files, s.selected)
                    p == join(Dir, f)
                    m == get_metadata_for_display(s.cached_metadata, f, ok)
                    u == [s EXCEPT !.cached_metadata_text = m[1],
                                   !.cached_metadata = m[2],
                                   !.image_path = Some(p),
                                   !.previous_selected = s.selected,
                                   !.mid_scroll = 0]
                IN IF is_image_file(p)
                     THEN load_decision(clear_decision(u, p), p)
                     ELSE u
           ELSE [s EXCEPT !.cached_metadata_text =
                             [kind |-> "No files available", file |-> None],
                          !.image_path = None,
                          !.image_state = None]
    ELSE s

\* App::update_selection; ok is the metadata provider's answer.
update_selection(s, ok) ==
  IF s.selected # s.previous_selected
    THEN LET t ==
               IF s.files # <<>> /\ s.selected < Len(s.files)
                 THEN LET f == FileAt(s.files, s.selected)
                          p == join(Dir, f)
                          m == get_metadata_for_display(s.cached_metadata, f, ok)
                          u == [s EXCEPT !.cached_metadata_text = m[1],
                                         !.cached_metadata = m[2],
                                         !.image_path = Some(p)]
                      IN IF is_image_file(p)
                           THEN load_decision(clear_decision(u, p), p)
                           ELSE u
                 ELSE [s EXCEPT !.cached_metadata_text =
                                   [kind |-> "No files available", file |-> None],
                                !.image_path = None,
                                !.image_state = None]
         IN [t EXCEPT !.previous_selected = s.selected, !.mid_scroll = 0]
    ELSE s

\* ------------------------------------------------------------- preloader
\* selected.saturating_sub(preload_range)
saturating_sub(a, b) == IF a > b THEN a - b ELSE 0

\* The for loop of preload_nearby_images over i..end-1: the first eligible
\* neighbour is handed to start_background_image_load and the loop breaks.
RECURSIVE preload_scan(_, _, _)
preload_scan(s, i, end) ==
  IF i >= end THEN s
  ELSE LET p == join(Dir, FileAt(s.files, i))
       IN IF /\ i # s.selected
             /\ is_image_file(p)
             /\ p \notin s.loading_images
             /\ p \notin s.failed_images
             /\ p \notin s.loaded_images
             /\ Cardinality(s.loading_images) < max_concurrent_loads
            THEN start_background_image_load(s, p)
            ELSE preload_scan(s, i + 1, end)

\* The sweeps without the amnesty for Failed.
cache_sweep_keeps_failed(s) ==
  LET current_files == { join(Dir, s.files[k]) : k \in 1..Len(s.files) }
  IN IF Cardinality(s.loaded_images) > LoadedSweepLimit
       THEN [s EXCEPT !.loaded_images = @ \cap current_files]
       ELSE s

\* The sweeps with Loaded emptied instead of filtered by the listing.
cache_sweep_clears_loaded(s) ==
  LET a == IF Cardinality(s.failed_images) > FailedSweepLimit
             THEN [s EXCEPT !.failed_images = {}]
             ELSE s
  IN IF Cardinality(a.loaded_images) > LoadedSweepLimit
       THEN [a EXCEPT !.loaded_images = {}]
       ELSE a

\* The two sweeps at the end of preload_nearby_images.
cache_sweep(s) ==
  LET a == IF Cardinality(s.failed_images) > FailedSweepLimit
             THEN [s EXCEPT !.failed_images = {}]
             ELSE s
      current_files == { join(Dir, a.files[k]) : k \in 1..Len(a.files) }
  IN IF Cardinality(a.loaded_images) > LoadedSweepLimit
       THEN [a EXCEPT !.loaded_images = @ \cap current_files]
       ELSE a

\* The preloader without its concurrency cap: neither the early return nor
\* the check in the loop.
RECURSIVE preload_scan_uncapped(_, _, _)
preload_scan_uncapped(s, i, end) ==
  IF i >= end THEN s
  ELSE LET p == join(Dir, FileAt(s.files, i))
       IN IF /\ i # s.selected
             /\ is_image_file(p)
             /\ p \notin s.loading_images
             /\ p \notin s.failed_images
             /\ p \notin s.loaded_images
            THEN start_background_image_load(s, p)
            ELSE preload_scan_uncapped(s, i + 1, end)

preload_nearby_images_uncapped(s) ==
  IF s.files = <<>> THEN s
  ELSE IF s.pending_current_load # None THEN s
  ELSE cache_sweep(
         preload_scan_uncapped(s, saturating_sub(s.selected, preload_range),
                               Min(s.selected + preload_range + 1, Len(s.files))))

\* The preloader with the cap compared one too high.
RECURSIVE preload_scan_cap_off_by_one(_, _, _)
preload_scan_cap_off_by_one(s, i, end) ==
  IF i >= end THEN s
  ELSE LET p == join(Dir, FileAt(s.files, i))
       IN IF /\ i # s.selected
             /\ is_image_file(p)
             /\ p \notin s.loading_images
             /\ p \notin s.failed_images
             /\ p \notin s.loaded_images
             /\ Cardinality(s.loading_images) <= max_concurrent_loads
            THEN start_background_image_load(s, p)
            ELSE preload_scan_cap_off_by_one(s, i + 1, end)

preload_nearby_images_cap_off_by_one(s) ==
  IF s.files = <<>> THEN s
  ELSE IF s.pending_current_load # None THEN s
  ELSE IF Cardinality(s.loading_images) > max_concurrent_loads THEN s
  ELSE cache_sweep(
         preload_scan_cap_off_by_one(s, saturating_sub(s.selected, preload_range),
                                     Min(s.selected + preload_range + 1, Len(s.files))))

\* The preloader with a window one entry wider on each side.
preload_nearby_images_wide(s) ==
  IF s.files = <<>> THEN s
  ELSE IF s.pending_current_load # None THEN s
  ELSE IF Cardinality(s.loading_images) >= max_concurrent_loads THEN s
  ELSE cache_sweep(
         preload_scan(s, saturating_sub(s.selected, preload_range + 1),
                      Min(s.selected + preload_range + 2, Len(s.files))))

\* App::preload_nearby_images
preload_nearby_images(s) ==
  IF s.files = <<>> THEN s
  ELSE IF s.pending_current_load # None THEN s
  ELSE IF Cardinality(s.loading_images) >= max_concurrent_loads THEN s
  ELSE cache_sweep(
         preload_scan(s, saturating_sub(s.selected, preload_range),
                      Min(s.selected + preload_range + 1, Len(s.files))))

\* ---------------------------------------------------------- input handler
\* The key codes handle_input tells apart, one per match arm: "Right" is
\* Right | Char('l'), "Left" is Left | Char('h'), "Down" is Down | Char('j'),
\* "Up" is Up | Char('k'), "x" is any other key.
Keys == {"q", "Right", "Left", "Down", "Up", "x"}

\* handle_input whose navigation wraps around at both ends of the listing.
handle_input_wraps(s, key, max_scroll) ==
  CASE key = "q" -> [s EXCEPT !.running = FALSE]
    [] key = "Right" ->
         [s EXCEPT !.focused_panel = IF @ = "Left" THEN "Middle" ELSE "Left"]
    [] key = "Left" ->
         [s EXCEPT !.focused_panel = IF @ = "Middle" THEN "Left" ELSE "Middle"]
    [] key = "Down" /\ s.focused_panel = "Left" ->
         IF s.files # <<>>
           THEN [s EXCEPT !.selected = (@ + 1) % Len(s.files)] ELSE s
    [] key = "Up" /\ s.focused_panel = "Left" ->
         IF s.files # <<>>
           THEN [s EXCEPT !.selected = IF @ = 0 THEN Len(s.files) - 1 ELSE @ - 1]
           ELSE s
    [] key = "Down" /\ s.focused_panel = "Middle" ->
         IF s.mid_scroll < max_scroll
           THEN [s EXCEPT !.mid_scroll = @ + 1] ELSE s
    [] key = "Up" /\ s.focused_panel = "Middle" ->
         IF s.mid_scroll > 0 THEN [s EXCEPT !.mid_scroll = @ - 1] ELSE s
    [] OTHER -> s

\* App::handle_input
handle_input(s, key, max_scroll) ==
  CASE key = "q" -> [s EXCEPT !.running = FALSE]
    [] key = "Right" ->
         [s EXCEPT !.focused_panel = IF @ = "Left" THEN "Middle" ELSE "Left"]
    [] key = "Left" ->
         [s EXCEPT !.focused_panel = IF @ = "Middle" THEN "Left" ELSE "Middle"]
    [] key = "Down" /\ s.focused_panel = "Left" ->
         IF s.selected < saturating_sub(Len(s.files), 1)
           THEN [s EXCEPT !.selected = @ + 1] ELSE s
    [] key = "Up" /\ s.focused_panel = "Left" ->
         IF s.selected > 0 THEN [s EXCEPT !.selected = @ - 1] ELSE s
    [] key = "Down" /\ s.focused_panel = "Middle" ->
         IF s.mid_scroll < max_scroll
           THEN [s EXCEPT !.mid_scroll = @ + 1] ELSE s
    [] key = "Up" /\ s.focused_panel = "Middle" ->
         IF s.mid_scroll > 0 THEN [s EXCEPT !.mid_scroll = @ - 1] ELSE s
    [] OTHER -> s

\* ------------------------------------------------------ status derivation
\* get_image_load_status that looks at the handle before the Failed set.
get_image_load_status_handle_first(s) ==
  IF s.image_path # None
    THEN LET current_path == s.image_path[1]
         IN IF ~is_image_file(current_path) THEN "NotImage"
            ELSE IF ~s.image_picker THEN "UnsupportedTerminal"
            ELSE IF current_path \in s.loading_images THEN "Loading"
            ELSE IF s.image_state # None THEN "Loaded"
            ELSE IF current_path \in s.failed_images THEN "Failed"
            ELSE "Loading"
    ELSE "NotImage"

\* App::get_image_load_status
get_image_load_status(s) ==
  IF s.image_path # None
    THEN LET current_path == s.image_path[1]
         IN IF ~is_image_file(current_path) THEN "NotImage"
            ELSE IF ~s.image_picker THEN "UnsupportedTerminal"
            ELSE IF current_path \in s.loading_images THEN "Loading"
            ELSE IF current_path \in s.failed_images THEN "Failed"
            ELSE IF s.image_state # None THEN "Loaded"
            ELSE "Loading"
    ELSE "NotImage"

\* ---------------------------------------------------------------- actions
\* One frame of the render loop: drain, selection controller, preloader,
\* then (after the draw and the pacing sleep, which change no state) the
\* input poll.  The loop runs while App.running holds.
ProcessImageLoadEvents ==
  /\ phase = "drain"
  /\ Becomes(process_image_load_events(Self))
  /\ phase' = "select"

UpdateSelection ==
  /\ phase = "select"
  /\ \E ok \in BOOLEAN : Becomes(update_selection(Self, ok))
  /\ phase' = "preload"

PreloadNearbyImages ==
  /\ phase = "preload"
  /\ Becomes(preload_nearby_images(Self))
  /\ phase' = "input"

\* The poll returned a key event: it is forwarded to handle_input.
HandleInput ==
  /\ phase = "input"
  /\ \E key \in Keys, max_scroll \in 0..MaxScroll :
       LET t == handle_input(Self, key, max_scroll)
       IN /\ Becomes(t)
          /\ phase' = IF t.running THEN "drain" ELSE "done"

\* The poll timed out without a key.
PollTimeout ==
  /\ phase = "input"
  /\ Becomes(Self)
  /\ phase' = "drain"

\* A spawned task finishes its decode and sends its one event.
TaskComplete ==
  /\ \E w \in BagToSet(workers), result \in TaskResults :
       Becomes(task_finish(Self, w, result))
  /\ UNCHANGED phase

Next ==
  \/ ProcessImageLoadEvents
  \/ UpdateSelection
  \/ PreloadNearbyImages
  \/ HandleInput
  \/ PollTimeout
  \/ TaskComplete

Spec == Init /\ [][Next]_vars

\* Scenario C of the specification: a listing with one image more than
\* the concurrency cap, alone or after a file that is not an image, with
\* graphics available and only Up/Down navigation in the file panel as
\* input.
ScenarioLists ==
  { SubSeq(Images_dir, 1, max_concurrent_loads + 1),
    <<Mixed_dir[1]>> \o SubSeq(Images_dir, 1, max_concurrent_loads + 1) }

ScenarioInit == \E fs \in ScenarioLists : AppNew(fs, TRUE)

HandleNavigation ==
  /\ phase = "input"
  /\ \E key \in {"Down", "Up"} :
       /\ Becomes(handle_input(Self, key, 0))
       /\ phase' = "drain"

ScenarioNext ==
  \/ ProcessImageLoadEvents
  \/ UpdateSelection
  \/ PreloadNearbyImages
  \/ HandleNavigation
  \/ PollTimeout
  \/ TaskComplete

ScenarioSpec == ScenarioInit /\ [][ScenarioNext]_vars

\* -------------------------------------------- long sessions (cache sweeps)
\* The task w finishes.
TaskCompleteOf(w) ==
  /\ w \in BagToSet(workers)
  /\ \E result \in TaskResults : Becomes(task_finish(Self, w, result))
  /\ UNCHANGED phase

\* Two images, alone or after a file that is not an image, graphics
\* available, Up/Down navigation and no quit: the loop runs on for ever.
\* Every spawned task eventually reports, and the loop keeps taking the
\* steps of its frames.
FairLists == { SubSeq(Images_dir, 1, 2), SubSeq(Mixed_dir, 1, 2) }

FairInit == \E fs \in FairLists : AppNew(fs, TRUE)

FairSpec ==
  /\ FairInit /\ [][ScenarioNext]_vars
  /\ \A f \in {Images_dir[1], Images_dir[2]} :
       \A tier \in {"Normal", "Priority"} :
         WF_vars(TaskCompleteOf(Task(join(Dir, f), tier)))
  /\ WF_vars(ProcessImageLoadEvents)
  /\ WF_vars(UpdateSelection)
  /\ WF_vars(PreloadNearbyImages)
  /\ WF_vars(HandleNavigation \/ PollTimeout)

\* A long walk down a large directory of images, graphics available: the
\* only key is Down, and it is pressed while at most MaxInFlight requests
\* are outstanding.  Every decode fails in FailedSweepSpec and succeeds in
\* LoadedSweepSpec, so Failed resp. Loaded grow past their sweep limits.
MaxInFlight == 1

\* A listing of n image files named "1" .. "n".
NumberedListing(n) == [k \in 1..n |-> [name |-> ToString(k), ext |-> "jpg"]]

HandleDown ==
  /\ phase = "input"
  /\ BagCardinality(workers) + Len(channel) <= MaxInFlight
  /\ Becomes(handle_input(Self, "Down", 0))
  /\ phase' = "drain"

\* A spawned task's decode fails and it sends LoadError.
TaskFails ==
  /\ \E w \in BagToSet(workers) : Becomes(task_finish(Self, w, "OkErr"))
  /\ UNCHANGED phase

\* A spawned task's decode succeeds and it sends LoadComplete.
TaskSucceeds ==
  /\ \E w \in BagToSet(workers) : Becomes(task_finish(Self, w, "OkOk"))
  /\ UNCHANGED phase

FailedSweepInit == AppNew(NumberedListing(FailedSweepLimit + 2), TRUE)

FailedSweepNext ==
  \/ ProcessImageLoadEvents
  \/ UpdateSelection
  \/ PreloadNearbyImages
  \/ HandleDown
  \/ PollTimeout
  \/ TaskFails

FailedSweepSpec == FailedSweepInit /\ [][FailedSweepNext]_vars

LoadedSweepInit == AppNew(NumberedListing(LoadedSweepLimit + 2), TRUE)

LoadedSweepNext ==
  \/ ProcessImageLoadEvents
  \/ UpdateSelection
  \/ PreloadNearbyImages
  \/ HandleDown
  \/ PollTimeout
  \/ TaskSucceeds

LoadedSweepSpec == LoadedSweepInit /\ [][LoadedSweepNext]_vars

\* ------------------------------------------------ RatatuiUI::run (the loop)
\* RatatuiUI::run keeps its own files, selected, previous_selected,
\* cached_metadata_text, focused_panel, mid_scroll and running, held here in
\* the variables of the same names; it constructs no App, so the engine's
\* sets, tasks and channel stay as they start.
RunInit ==
  /\ files = <<>>
  /\ selected = 0
  /\ previous_selected = USIZE_MAX
  /\ image_path = None
  /\ image_state = None
  /\ cached_metadata_text = [kind |-> "", file |-> None]
  /\ cached_metadata = None
  /\ focused_panel = "Left"
  /\ mid_scroll = 0
  /\ running = TRUE
  /\ loading_images = {}
  /\ failed_images = {}
  /\ loaded_images = {}
  /\ pending_current_load = None
  /\ last_loaded_path = None
  /\ image_picker = FALSE
  /\ workers = EmptyBag
  /\ channel = <<>>
  /\ phase = "enable_raw_mode"
  /\ raw_mode = FALSE
  /\ alternate_screen = FALSE
  /\ decode = NoDecode

EngineUnchanged ==
  UNCHANGED << image_path, image_state, loading_images, failed_images,
               loaded_images, pending_current_load, last_loaded_path,
               image_picker, workers, channel, decode >>

LocalsUnchanged ==
  UNCHANGED << files, selected, previous_selected, cached_metadata_text,
               cached_metadata, focused_panel, mid_scroll, running >>

\* disable_raw_mode and LeaveAlternateScreen, then return.
RestoreAndReturn(result) ==
  /\ raw_mode' = FALSE
  /\ alternate_screen' = FALSE
  /\ phase' = result

\* A `?` on an Err: the function returns the error at once.
ReturnErr ==
  /\ UNCHANGED <<raw_mode, alternate_screen>>
  /\ phase' = "returned_err"

\* terminal::enable_raw_mode()?
EnableRawMode ==
  /\ phase = "enable_raw_mode"
  /\ \E ok \in BOOLEAN :
       IF ok THEN /\ raw_mode' = TRUE
                  /\ UNCHANGED alternate_screen
                  /\ phase' = "enter_alternate_screen"
             ELSE ReturnErr
  /\ EngineUnchanged /\ LocalsUnchanged

\* stdout.execute(terminal::EnterAlternateScreen)?
EnterAlternateScreen ==
  /\ phase = "enter_alternate_screen"
  /\ \E ok \in BOOLEAN :
       IF ok THEN /\ alternate_screen' = TRUE
                  /\ UNCHANGED raw_mode
                  /\ phase' = "terminal_new"
             ELSE ReturnErr
  /\ EngineUnchanged /\ LocalsUnchanged

\* match Terminal::new(backend): the Err arm restores the terminal.
TerminalNew ==
  /\ phase = "terminal_new"
  /\ \E ok \in BOOLEAN :
       IF ok THEN UNCHANGED <<raw_mode, alternate_screen>> /\ phase' = "branch"
             ELSE RestoreAndReturn("returned_err")
  /\ EngineUnchanged /\ LocalsUnchanged

\* `file` is a regular file: the placeholder loop is entered.
EnterFileMode ==
  /\ phase = "branch"
  /\ phase' = "file_top"
  /\ UNCHANGED <<raw_mode, alternate_screen>>
  /\ EngineUnchanged /\ LocalsUnchanged

\* terminal.draw(..)? in the placeholder loop.
FileDraw ==
  /\ phase = "file_top" /\ running
  /\ \E ok \in BOOLEAN :
       IF ok THEN UNCHANGED <<raw_mode, alternate_screen>> /\ phase' = "file_poll"
             ELSE ReturnErr
  /\ EngineUnchanged /\ LocalsUnchanged

\* The poll of the placeholder loop: only q is acted on.
FilePoll ==
  /\ phase = "file_poll"
  /\ \E key \in {"q", "x"} : running' = (key # "q")
  /\ phase' = "file_top"
  /\ UNCHANGED << files, selected, previous_selected, cached_metadata_text,
                  cached_metadata, focused_panel, mid_scroll,
                  raw_mode, alternate_screen >>
  /\ EngineUnchanged

\* The placeholder loop ends: restore and return Ok(()).
FileReturn ==
  /\ phase = "file_top" /\ ~running
  /\ RestoreAndReturn("returned_ok")
  /\ EngineUnchanged /\ LocalsUnchanged

\* fs::read_dir(dir): the listing, empty when the directory cannot be read.
ListFiles ==
  /\ phase = "branch"
  /\ \E fs \in FileLists : files' = fs
  /\ phase' = "browse_top"
  /\ UNCHANGED << selected, previous_selected, cached_metadata_text,
                  cached_metadata, focused_panel, mid_scroll, running,
                  raw_mode, alternate_screen >>
  /\ EngineUnchanged

\* The head of the browser loop: the metadata text is recomputed when the
\* selection changed.
run_update_metadata(s, ok) ==
  IF s.selected # s.previous_selected
    THEN LET t == IF s.files # <<>>
                    THEN LET m == get_metadata_for_display(
                                    s.cached_metadata, FileAt(s.files, s.selected), ok)
                         IN [s EXCEPT !.cached_metadata_text = m[1],
                                      !.cached_metadata = m[2]]
                    ELSE [s EXCEPT !.cached_metadata_text =
                                     [kind |-> "No files found", file |-> None]]
         IN [t EXCEPT !.previous_selected = s.selected, !.mid_scroll = 0]
    ELSE s

\* The match on key.code in the browser loop.
run_handle_key(s, key, max_scroll) ==
  CASE key = "q" -> [s EXCEPT !.running = FALSE]
    [] key = "Right" ->
         [s EXCEPT !.focused_panel = IF @ = "Left" THEN "Middle" ELSE "Left"]
    [] key = "Left" ->
         [s EXCEPT !.focused_panel = IF @ = "Left" THEN "Middle" ELSE "Left"]
    [] key = "Down" /\ s.focused_panel = "Left" ->
         IF s.files # <<>>
           THEN [s EXCEPT !.selected = (@ + 1) % Len(s.files)] ELSE s
    [] key = "Up" /\ s.focused_panel = "Left" ->
         IF s.files # <<>>
           THEN [s EXCEPT !.selected = IF @ = 0 THEN Len(s.files) - 1 ELSE @ - 1]
           ELSE s
    [] key = "Down" /\ s.focused_panel = "Middle" ->
         IF s.mid_scroll < max_scroll
           THEN [s EXCEPT !.mid_scroll = @ + 1] ELSE s
    [] key = "Up" /\ s.focused_panel = "Middle" ->
         IF s.mid_scroll > 0 THEN [s EXCEPT !.mid_scroll = @ - 1] ELSE s
    [] OTHER -> s

BrowseUpdate ==
  /\ phase = "browse_top" /\ running
  /\ \E ok \in BOOLEAN : Becomes(run_update_metadata(Self, ok))
  /\ phase' = "browse_draw"

\* terminal.draw(..)? in the browser loop.
BrowseDraw ==
  /\ phase = "browse_draw"
  /\ \E ok \in BOOLEAN :
       IF ok THEN UNCHANGED <<raw_mode, alternate_screen>> /\ phase' = "browse_poll"
             ELSE ReturnErr
  /\ EngineUnchanged /\ LocalsUnchanged

\* The poll of the browser loop: a key, or none ("x" stands for a key the
\* match ignores and for a poll that timed out).
BrowsePoll ==
  /\ phase = "browse_poll"
  /\ \E key \in Keys, max_scroll \in 0..MaxScroll :
       Becomes(run_handle_key(Self, key, max_scroll))
  /\ phase' = "browse_top"

\* The browser loop ends: restore and return Ok(()).
BrowseReturn ==
  /\ phase = "browse_top" /\ ~running
  /\ RestoreAndReturn("returned_ok")
  /\ EngineUnchanged /\ LocalsUnchanged

RunNext ==
  \/ EnableRawMode
  \/ EnterAlternateScreen
  \/ TerminalNew
  \/ EnterFileMode
  \/ FileDraw
  \/ FilePoll
  \/ FileReturn
  \/ ListFiles
  \/ BrowseUpdate
  \/ BrowseDraw
  \/ BrowsePoll
  \/ BrowseReturn

RunSpec == RunInit /\ [][RunNext]_vars

\* ----------------------------------------------------- the decode worker
\* The body of one decode task: load_image_protocol_sync for a Normal-tier
\* request, load_image_protocol_priority for a Priority-tier one.  The file is
\* described by what the decoders make of it: whether FastImageLoader::
\* load_image succeeds (fast_ok), whether image::open of the fallback succeeds
\* (open_ok), and the dimensions of the decoded image.
U16_MAX == 65535

\* A value exceeds u32::MAX = 65536 * 65536 - 1 when its upper part, the
\* value divided by 65536, does not fit 16 bits.
exceeds_u32(x) == x \div 65536 >= 65536

\* a.saturating_mul(b).min(cap) on u32 values, for a cap below u32::MAX: a
\* saturated product is u32::MAX, whose minimum with cap is cap.
saturating_mul_min(a, b, cap) ==
  IF exceeds_u32(a * b) THEN cap ELSE Min(a * b, cap)

\* The product is formed in the 16 bits of the arguments.
get_terminal_display_size_u16(terminal_width, terminal_height) ==
  LET pixel_width == (terminal_width * 8) % (U16_MAX + 1)
      pixel_height == (terminal_height * 16) % (U16_MAX + 1)
  IN  << Min(pixel_width, 800), Min(pixel_height, 600) >>

\* FastImageLoader::get_terminal_display_size; `as u32` widens the 16-bit
\* arguments without changing their value.
get_terminal_display_size(terminal_width, terminal_height) ==
  << saturating_mul_min(terminal_width, 8, 800),
     saturating_mul_min(terminal_height, 16, 600) >>

\* (max_preview_width, max_preview_height) of the two functions.
max_preview(tier) ==
  IF tier = "Normal" THEN << 600, 400 >> ELSE << 500, 350 >>

\* (target_width, target_height): the terminal estimate capped by the
\* preview maximum, or the preview maximum when a dimension is unknown.
target_size(tier, terminal_width, terminal_height) ==
  IF terminal_width # None /\ terminal_height # None
    THEN LET t == get_terminal_display_size(terminal_width[1], terminal_height[1])
         IN  << Min(t[1], max_preview(tier)[1]), Min(t[2], max_preview(tier)[2]) >>
    ELSE max_preview(tier)

\* FastImageLoader::load_image_resized: scale = min(tw/w, th/h, 1.0) is below
\* 1.0 exactly when the image exceeds the target in a dimension.
load_image_resized(img, target_width, target_height) ==
  IF ~img.fast_ok
    THEN [ok |-> FALSE, filter |-> None]
    ELSE IF target_width < img.width \/ target_height < img.height
           THEN [ok |-> TRUE, filter |-> Some("Triangle")]
           ELSE [ok |-> TRUE, filter |-> None]

\* The or_else closure of the two functions: image::open, then a resize with
\* the filter of the function when the image exceeds the target.
fallback_load(img, target_width, target_height, filter) ==
  IF ~img.open_ok
    THEN [ok |-> FALSE, filter |-> None]
    ELSE IF img.width > target_width \/ img.height > target_height
           THEN [ok |-> TRUE, filter |-> Some(filter)]
           ELSE [ok |-> TRUE, filter |-> None]

\* The common shape of the two functions; `filter` is the fallback's filter.
load_image_protocol(tier, filter, img, terminal_width, terminal_height) ==
  LET target == target_size(tier, terminal_width, terminal_height)
      first == load_image_resized(img, target[1], target[2])
      r == IF first.ok THEN first
                       ELSE fallback_load(img, target[1], target[2], filter)
  IN  [ result |-> IF r.ok THEN "Ok" ELSE "Err",
        target |-> target,
        path |-> IF first.ok THEN "load_image_resized" ELSE "fallback",
        resize |-> r.filter ]

load_image_protocol_sync(img, terminal_width, terminal_height) ==
  load_image_protocol("Normal", "Triangle", img, terminal_width, terminal_height)

load_image_protocol_priority(img, terminal_width, terminal_height) ==
  load_image_protocol("Priority", "Nearest", img, terminal_width, terminal_height)

\* Terminal sizes around the points where a cap starts to bind, and the ends
\* of the 16-bit range.
TerminalWidths == {0, 1, 62, 63, 75, 76, 100, 8192, U16_MAX}
TerminalHeights == {0, 1, 21, 22, 25, 26, 38, 4096, U16_MAX}

\* Image sizes around the preview maxima.
ImageWidths == {1, 500, 501, 600, 601, 4000}
ImageHeights == {1, 350, 351, 400, 401, 3000}

\* The terminal size an App holds: unknown, or both dimensions as set by
\* update_terminal_size.
TerminalSizes ==
  { << None, None >> }
    \cup { << Some(w), Some(h) >> : w \in TerminalWidths, h \in TerminalHeights }

DecodedFiles ==
  [ fast_ok : BOOLEAN, open_ok : BOOLEAN,
    width : ImageWidths, height : ImageHeights ]

\* A decode task has just been spawned for some file, tier and terminal size.
DecodeInit ==
  /\ files = <<>>
  /\ selected = 0
  /\ previous_selected = USIZE_MAX
  /\ image_path = None
  /\ image_state = None
  /\ cached_metadata_text = [kind |-> "", file |-> None]
  /\ cached_metadata = None
  /\ focused_panel = "Left"
  /\ mid_scroll = 0
  /\ running = TRUE
  /\ loading_images = {}
  /\ failed_images = {}
  /\ loaded_images = {}
  /\ pending_current_load = None
  /\ last_loaded_path = None
  /\ image_picker = TRUE
  /\ workers = EmptyBag
  /\ channel = <<>>
  /\ phase = "decode"
  /\ raw_mode = FALSE
  /\ alternate_screen = FALSE
  /\ \E tier \in {"Normal", "Priority"}, t \in TerminalSizes, img \in DecodedFiles :
       decode = [ pc |-> "spawned", tier |-> tier, img |-> img,
                  terminal_width |-> t[1], terminal_height |-> t[2] ]

DecodeFinishes(r) ==
  /\ decode' = [ pc |-> "returned", tier |-> decode.tier, img |-> decode.img,
                 terminal_width |-> decode.terminal_width,
                 terminal_height |-> decode.terminal_height,
                 result |-> r.result, target |-> r.target,
                 path |-> r.path, resize |-> r.resize ]
  /\ UNCHANGED << files, selected, previous_selected, image_path, image_state,
                  cached_metadata_text, cached_metadata, focused_panel,
                  mid_scroll, running, loading_images, failed_images,
                  loaded_images, pending_current_load, last_loaded_path,
                  image_picker, workers, channel, phase, raw_mode,
                  alternate_screen >>

\* The task of start_background_image_load runs load_image_protocol_sync.
DecodeNormal ==
  /\ decode.pc = "spawned" /\ decode.tier = "Normal"
  /\ DecodeFinishes(load_image_protocol_sync(
                      decode.img, decode.terminal_width, decode.terminal_height))

\* The task of start_priority_image_load runs load_image_protocol_priority.
DecodePriority ==
  /\ decode.pc = "spawned" /\ decode.tier = "Priority"
  /\ DecodeFinishes(load_image_protocol_priority(
                      decode.img, decode.terminal_width, decode.terminal_height))

DecodeNext == DecodeNormal \/ DecodePriority

DecodeSpec == DecodeInit /\ [][DecodeNext]_vars

TypeOK ==
  /\ selected \in 0..MaxFiles
  /\ running \in BOOLEAN
  /\ focused_panel \in {"Left", "Middle"}
  /\ mid_scroll \in 0..MaxScroll
  /\ phase \in {"drain", "select", "preload", "input", "done"}

\* ============================================================== properties
\* Every path the two directories can give rise to.
AllPaths ==
  { join(Dir, Images_dir[k]) : k \in 1..Len(Images_dir) }
    \cup { join(Dir, Mixed_dir[k]) : k \in 1..Len(Mixed_dir) }

\* Decode tasks for path p that have not sent their event yet.
RunningFor(p) ==
  CopiesIn(Task(p, "Normal"), workers) + CopiesIn(Task(p, "Priority"), workers)

\* Events for path p in the channel ch.
EventsFor(p, ch) == Cardinality({ i \in DOMAIN ch : ch[i].file_path = p })

\* Requests for p that are outstanding: running, or sent and not yet drained.
Outstanding(p) == RunningFor(p) + EventsFor(p, channel)

\* C1: in every reachable state no path is both in Loading and in Failed.
C1_LoadingFailedDisjoint == loading_images \cap failed_images = {}

\* A failure has been recorded, another path is loading and a result is
\* waiting to be drained.
C1_Witness ==
  /\ failed_images # {}
  /\ loading_images # {}
  /\ channel # <<>>

\* C2: every path has at most one outstanding decode request (running task
\* or undrained event), whatever the interleaving of tasks and passes.
C2_AtMostOneOutstanding == \A p \in AllPaths : Outstanding(p) <= 1

\* A path is being re-read at Priority tier while another result waits in
\* the channel.
C2_Witness ==
  /\ \E w \in BagToSet(workers) : w.tier = "Priority"
  /\ channel # <<>>

\* C3 as stated: Loading never holds more paths than the concurrency cap.
C3_LoadingWithinCap == Cardinality(loading_images) <= max_concurrent_loads

\* C3 amended: only a selection-controller pass takes Loading above the
\* cap; no preloader pass, drain, key or task completion adds a path to
\* Loading beyond the cap.
C3_OnlySelectionExceedsCap ==
  [][ ( /\ Cardinality(loading_images') > max_concurrent_loads
        /\ ~(loading_images' \subseteq loading_images) )
      => \E ok \in BOOLEAN : Self' = update_selection(Self, ok) ]_vars

\* The selection has moved over three images before any decode was drained.
C3_Witness == Cardinality(loading_images) > max_concurrent_loads

\* The state after the first n iterations of the receive loop.
RECURSIVE drain_prefix(_, _)
drain_prefix(s, n) ==
  IF n = 0 \/ s.channel = <<>> THEN s
  ELSE drain_prefix(
         process_event([s EXCEPT !.channel = Tail(@)], Head(s.channel)), n - 1)

\* C4: every issued request yields exactly one event: a step issues a
\* request for a path by adding exactly one task, a task ends only by
\* appending one LoadComplete or LoadError event that carries its path, and
\* no event reaches the channel in any other way.
C4_OneEventPerRequest ==
  [][ \A p \in AllPaths :
        /\ RunningFor(p)' < RunningFor(p) =>
             /\ RunningFor(p)' = RunningFor(p) - 1
             /\ Len(channel') = Len(channel) + 1
             /\ SubSeq(channel', 1, Len(channel)) = channel
             /\ channel'[Len(channel')].file_path = p
             /\ channel'[Len(channel')].kind \in {"LoadComplete", "LoadError"}
        /\ EventsFor(p, channel') > EventsFor(p, channel) =>
             /\ EventsFor(p, channel') = EventsFor(p, channel) + 1
             /\ RunningFor(p)' = RunningFor(p) - 1
        /\ RunningFor(p)' > RunningFor(p) =>
             /\ RunningFor(p)' = RunningFor(p) + 1
             /\ channel' = channel ]_vars

\* A task has ended and its failure event waits in the channel.
C4_Witness ==
  \E i \in DOMAIN channel :
    /\ channel[i].kind = "LoadError"
    /\ RunningFor(channel[i].file_path) = 0
    /\ channel[i].file_path \in loading_images

\* C5: a task that fails (decode error or join error) sends LoadError for
\* its path; neither that nor draining it stops the loop, and afterwards
\* keys still move the selection and a selection change to another image
\* still gets its request.
C5_FailureReportedAndIsolated ==
  \A w \in BagToSet(workers), r \in {"OkErr", "JoinErr"} :
    LET t == task_finish(Self, w, r)
        e == t.channel[Len(t.channel)]
        d == process_image_load_events(t)
    IN /\ Len(t.channel) = Len(channel) + 1
       /\ e.kind = "LoadError"
       /\ e.file_path = w.file_path
       /\ t.running = running
       /\ d.running = running
       /\ w.file_path \in d.failed_images
       /\ \A key \in Keys, m \in 0..MaxScroll :
            handle_input(d, key, m).selected = handle_input(Self, key, m).selected
       /\ \A key \in {"Down", "Up"}, ok \in BOOLEAN :
            LET h == handle_input(d, key, 0)
                u == update_selection(h, ok)
            IN ( /\ h.selected # h.previous_selected
                 /\ h.selected < Len(files)
                 /\ is_image_file(join(Dir, FileAt(files, h.selected)))
                 /\ join(Dir, FileAt(files, h.selected)) # w.file_path
                 /\ join(Dir, FileAt(files, h.selected)) \notin d.loading_images )
               => join(Dir, FileAt(files, h.selected)) \in u.loading_images

\* A failure has been recorded and the loop has since issued a request for
\* another path.
C5_Witness ==
  /\ failed_images # {}
  /\ phase # "done"
  /\ \E w \in BagToSet(workers) : w.file_path \notin failed_images

\* C6: draining LoadComplete for P puts P in Loaded, takes it out of
\* Loading and records it as last-displayed; the handle is installed and
\* the pending-current marker cleared exactly when P is the current path.
C6_SuccessDrain ==
  /\ drain_prefix(Self, Len(channel)) = process_image_load_events(Self)
  /\ \A i \in 1..Len(channel) :
       channel[i].kind = "LoadComplete" =>
         LET b == drain_prefix(Self, i - 1)
             a == drain_prefix(Self, i)
             P == channel[i].file_path
         IN /\ P \in a.loaded_images
            /\ P \notin a.loading_images
            /\ a.last_loaded_path = Some(P)
            /\ IF b.image_path = Some(P)
                 THEN /\ a.image_state = Some(channel[i].protocol)
                      /\ a.pending_current_load = None
                 ELSE /\ a.image_state = b.image_state
                      /\ a.pending_current_load = b.pending_current_load

\* The drain has just installed the handle of the current path.
C6_Witness ==
  /\ phase = "select"
  /\ image_path # None
  /\ image_state # None
  /\ image_state[1].of = image_path[1]
  /\ last_loaded_path = image_path
  /\ pending_current_load = None
  /\ image_path[1] \in loaded_images \ loading_images

\* C7: draining LoadError for P puts P in Failed and takes it out of
\* Loading; the marker is cleared exactly when P is the current path; the
\* handle, Loaded, last-displayed and every other path's membership stay.
C7_FailureDrain ==
  \A i \in 1..Len(channel) :
    channel[i].kind = "LoadError" =>
      LET b == drain_prefix(Self, i - 1)
          a == drain_prefix(Self, i)
          P == channel[i].file_path
      IN /\ P \in a.failed_images
         /\ P \notin a.loading_images
         /\ a.pending_current_load =
              IF b.image_path = Some(P) THEN None ELSE b.pending_current_load
         /\ a.image_state = b.image_state
         /\ a.loaded_images = b.loaded_images
         /\ a.last_loaded_path = b.last_loaded_path
         /\ a.failed_images \ {P} = b.failed_images \ {P}
         /\ a.loading_images \ {P} = b.loading_images \ {P}

\* A Priority refresh of the displayed path has failed and been drained:
\* the path is Failed and the earlier handle is still active.
C7_Witness ==
  /\ phase = "select"
  /\ image_path # None
  /\ image_path[1] \in failed_images
  /\ image_state # None
  /\ pending_current_load = None

\* C8: a result drained while another path (or none) is current changes
\* neither the handle nor the marker, nor anything but the bookkeeping of
\* its own path.
C8_StaleResultIsBookkeeping ==
  \A i \in 1..Len(channel) :
    LET b == drain_prefix(Self, i - 1)
        a == drain_prefix(Self, i)
        P == channel[i].file_path
    IN b.image_path # Some(P) =>
         /\ a.image_state = b.image_state
         /\ a.pending_current_load = b.pending_current_load
         /\ a.image_path = b.image_path
         /\ a.selected = b.selected
         /\ a.previous_selected = b.previous_selected
         /\ a.cached_metadata_text = b.cached_metadata_text
         /\ a.mid_scroll = b.mid_scroll
         /\ a.workers = b.workers
         /\ a.loading_images \ {P} = b.loading_images \ {P}
         /\ a.failed_images \ {P} = b.failed_images \ {P}
         /\ a.loaded_images \ {P} = b.loaded_images \ {P}
         /\ P \notin a.loading_images

\* The drain has just recorded the result of a path that is no longer
\* selected, while the current selection's own load is still pending.
C8_Witness ==
  /\ phase = "select"
  /\ pending_current_load # None
  /\ last_loaded_path # None
  /\ last_loaded_path # image_path
  /\ pending_current_load = image_path

\* C9: an active handle was decoded from the current path.
C9_HandleMatchesSelection ==
  image_state # None =>
    /\ image_path # None
    /\ image_state[1].of = image_path[1]

\* C10: with the selected index equal to the previous index a
\* selection-controller pass changes nothing and issues nothing.
C10_UnchangedIndexNoOp ==
  selected = previous_selected =>
    \A ok \in BOOLEAN : update_selection(Self, ok) = Self

\* A pass has just run on an unchanged index, with the panel scrolled and a
\* load in flight.
C10_Witness ==
  /\ phase = "preload"
  /\ selected = previous_selected
  /\ mid_scroll > 0
  /\ loading_images # {}


\* The selection controller is about to run on a changed index.
SelectionChanges == phase = "select" /\ selected # previous_selected

\* The path of the newly selected entry (the index is within the listing).
NewPath == join(Dir, FileAt(files, selected))

\* C11: on a selection change the controller clears the active handle,
\* unless the new path is the last-displayed path and is in Loaded, in
\* which case it keeps the handle.
C11_ClearUnlessRecent ==
  SelectionChanges =>
    \A ok \in BOOLEAN :
      LET u == update_selection(Self, ok)
      IN IF /\ selected < Len(files)
            /\ last_loaded_path = Some(NewPath)
            /\ NewPath \in loaded_images
           THEN u.image_state = image_state
           ELSE u.image_state = None


\* C12: a selection change to a path that is in Loaded starts no Normal task
\* and at most one Priority task for it and leaves it in Loaded; while the
\* Priority task runs, and until its event is drained (the path is in both
\* Loaded and Loading), the path stays in Loaded.
C12_ReselectLoaded ==
  /\ [](SelectionChanges /\ selected < Len(files) /\ NewPath \in loaded_images =>
          \A ok \in BOOLEAN :
            LET u == update_selection(Self, ok)
            IN /\ CopiesIn(Task(NewPath, "Normal"), u.workers)
                    = CopiesIn(Task(NewPath, "Normal"), workers)
               /\ CopiesIn(Task(NewPath, "Priority"), u.workers)
                    <= CopiesIn(Task(NewPath, "Priority"), workers) + 1
               /\ CopiesIn(Task(NewPath, "Priority"), u.workers) <= 1
               /\ NewPath \in u.loaded_images)
  /\ [](\A p \in AllPaths :
          CopiesIn(Task(p, "Priority"), workers) > 0 => p \in loaded_images)
  /\ [][\A p \in AllPaths :
          p \in loaded_images /\ p \in loading_images => p \in loaded_images']_vars

\* A Priority refresh of the selected, already Loaded path is running.
C12_Witness ==
  /\ phase = "preload"
  /\ image_path # None
  /\ image_path[1] \in loaded_images
  /\ CopiesIn(Task(image_path[1], "Priority"), workers) = 1


\* The selection changes to an image entry whose path is in none of
\* Loading, Failed, Loaded.
SelectsFresh ==
  /\ SelectionChanges
  /\ selected < Len(files)
  /\ is_image_file(NewPath)
  /\ NewPath \notin loading_images \cup failed_images \cup loaded_images

\* What the selection controller does with a fresh image path: one more
\* Normal task for it and no other task, the pending-current marker set to
\* it; and when that task succeeds and its event is drained with the path
\* still selected, the handle is installed and the status is Loaded.
FreshRequestIssued ==
  \A ok \in BOOLEAN :
    LET u == update_selection(Self, ok)
        w == Task(NewPath, "Normal")
        d == process_image_load_events(task_finish(u, w, "OkOk"))
    IN /\ u.workers = workers (+) SetToBag({w})
       /\ u.pending_current_load = Some(NewPath)
       /\ NewPath \in u.loading_images
       /\ d.image_path = Some(NewPath)
       /\ d.image_state = Some([of |-> NewPath, tier |-> "Normal"])
       /\ get_image_load_status(d) = "Loaded"

\* The event of a successful Normal request for the current path is drained
\* while the path is still selected: handle installed, status Loaded.
FreshResultDrained ==
  \A i \in 1..Len(channel) :
    /\ channel[i].kind = "LoadComplete"
    /\ channel[i].protocol.tier = "Normal"
    /\ image_path = Some(channel[i].file_path)
    => LET d == process_image_load_events(Self)
       IN /\ d.image_state = Some(channel[i].protocol)
          /\ get_image_load_status(d) = "Loaded"

\* C13 as stated: selecting a fresh image path issues exactly one Normal
\* request for it and sets the pending-current marker to it; if the request
\* succeeds while the path is still selected, the handle is installed and
\* the status becomes Loaded.
C13_FreshSelectionLoads ==
  /\ SelectsFresh => FreshRequestIssued
  /\ FreshResultDrained

\* C13 amended: the same, when a terminal graphics capability is present.
C13_FreshSelectionLoadsWithGraphics ==
  /\ SelectsFresh /\ image_picker => FreshRequestIssued
  /\ FreshResultDrained

\* The Normal request of the fresh current selection is running and the
\* pending-current marker names it.
C13_Witness ==
  /\ phase = "preload"
  /\ image_path # None
  /\ pending_current_load = image_path
  /\ CopiesIn(Task(image_path[1], "Normal"), workers) = 1
  /\ image_path[1] \notin loaded_images \cup failed_images


\* While a path whose decode failed is selected its status is Failed, both
\* once the failure is recorded and when its LoadError is about to be
\* drained.
FailedStatusShown ==
  /\ image_path # None /\ image_path[1] \in failed_images
       => get_image_load_status(Self) = "Failed"
  /\ \A i \in 1..Len(channel) :
       channel[i].kind = "LoadError" /\ image_path = Some(channel[i].file_path)
         => get_image_load_status(process_image_load_events(Self)) = "Failed"

\* The selection controller retries the newly selected path: it leaves
\* Failed, one more Normal task runs for it and no other task is started,
\* and the pending-current marker names it.
RetriedAsNormal ==
  \A ok \in BOOLEAN :
    LET u == update_selection(Self, ok)
    IN /\ NewPath \notin u.failed_images
       /\ u.workers = workers (+) SetToBag({Task(NewPath, "Normal")})
       /\ u.pending_current_load = Some(NewPath)

\* C14 as stated: a path whose decode failed has status Failed while
\* selected, and whenever the selection changes to a path in Failed the path
\* leaves Failed, exactly one new Normal request is issued for it and the
\* pending-current marker is set to it.
C14_FailedThenRetried ==
  /\ FailedStatusShown
  /\ (SelectionChanges /\ selected < Len(files) /\ NewPath \in failed_images)
       => RetriedAsNormal

\* C14 amended: the retry is of Normal tier for a path in Failed that is not
\* also in Loaded.
C14_FailedNotLoadedRetried ==
  /\ FailedStatusShown
  /\ (/\ SelectionChanges /\ selected < Len(files)
      /\ NewPath \in failed_images /\ NewPath \notin loaded_images)
       => RetriedAsNormal

\* The selection is about to change to a path that is in Failed and not in
\* Loaded, and the selection controller's pass starts its Normal retry.
C14_Witness ==
  /\ SelectionChanges /\ selected < Len(files)
  /\ NewPath \in failed_images /\ NewPath \notin loaded_images
  /\ CopiesIn(Task(NewPath, "Normal"), update_selection(Self, TRUE).workers) = 1


\* C15: a selection change to a path that is in Loading starts no task and
\* leaves Loading, Failed and Loaded as they are; when the request in
\* flight then succeeds and its event is drained with the path still
\* selected, its handle is installed.
C15_SelectLoadingAwaits ==
  SelectionChanges /\ selected < Len(files) /\ NewPath \in loading_images =>
    \A ok \in BOOLEAN :
      LET u == update_selection(Self, ok)
      IN /\ u.workers = workers
         /\ u.channel = channel
         /\ u.loading_images = loading_images
         /\ u.failed_images = failed_images
         /\ u.loaded_images = loaded_images
         /\ u.image_path = Some(NewPath)
         /\ \A w \in BagToSet(u.workers) :
              w.file_path = NewPath =>
                process_image_load_events(task_finish(u, w, "OkOk")).image_state
                  = Some([of |-> NewPath, tier |-> w.tier])
         /\ \A i \in 1..Len(u.channel) :
              u.channel[i].kind = "LoadComplete" /\ u.channel[i].file_path = NewPath
                => process_image_load_events(u).image_state
                     = Some(u.channel[i].protocol)

\* A path was selected while its request was already in flight: it is the
\* current path, it is in Loading, and the pending-current marker does not
\* name it.
C15_Witness ==
  /\ phase = "preload"
  /\ image_path # None
  /\ image_path[1] \in loading_images
  /\ pending_current_load # image_path
  /\ \E w \in BagToSet(workers) : w.file_path = image_path[1]


\* C16: in a frame in which the request of the currently selected path is
\* still outstanding (running, or sent and not yet drained), the preloader
\* pass starts no task.
C16_NoPreloadWhileCurrentOutstanding ==
  phase = "preload" /\ image_path # None /\ Outstanding(image_path[1]) > 0
    => preload_nearby_images(Self).workers = workers


\* Indices of the entries a preloader pass may load: image entries at most
\* preload_range positions from the selected index, within the listing, not
\* the selected entry, whose path is in none of Loading, Failed, Loaded.
EligibleNeighbours ==
  { i \in 0..(Len(files) - 1) :
      /\ i # selected
      /\ i - selected <= preload_range
      /\ selected - i <= preload_range
      /\ is_image_file(join(Dir, FileAt(files, i)))
      /\ join(Dir, FileAt(files, i))
           \notin loading_images \cup failed_images \cup loaded_images }

\* The lowest index of a non-empty set of indices.
FirstOf(S) == CHOOSE i \in S : \A j \in S : i <= j

\* C17: a preloader pass starts at most one task, of Normal tier, for the
\* first eligible neighbour; with no eligible neighbour it starts nothing.
\* A pass that is not cut short (graphics present, no pending-current
\* marker, fewer than 2 paths loading) does start that task.
C17_PreloadsFirstEligibleOnly ==
  phase = "preload" =>
    LET r == preload_nearby_images(Self)
    IN /\ \/ r.workers = workers
          \/ /\ EligibleNeighbours # {}
             /\ r.workers = workers (+) SetToBag(
                  {Task(join(Dir, FileAt(files, FirstOf(EligibleNeighbours))), "Normal")})
       /\ EligibleNeighbours = {} => r.workers = workers
       /\ (/\ EligibleNeighbours # {}
           /\ image_picker
           /\ pending_current_load = None
           /\ Cardinality(loading_images) < max_concurrent_loads)
          => r.workers # workers

\* With the first entry selected in a four-entry listing, a pass has
\* started the entry two positions away; the entry three positions away
\* is untouched.
C17_Witness ==
  /\ phase = "input"
  /\ Len(files) = 4
  /\ selected = 0
  /\ CopiesIn(Task(join(Dir, FileAt(files, 2)), "Normal"), workers) = 1
  /\ join(Dir, FileAt(files, 3)) \notin loading_images \cup failed_images \cup loaded_images


\* C18: a preloader pass that finds 2 or more paths in Loading starts no
\* task and adds nothing to Loading; the current selection's own load is
\* counted, so a pass that starts a task while the current path is in
\* Loading found it alone there and leaves exactly one neighbour beside it.
C18_PreloaderRespectsCap ==
  phase = "preload" =>
    LET r == preload_nearby_images(Self)
    IN /\ Cardinality(loading_images) >= max_concurrent_loads
            => r.workers = workers /\ r.loading_images = loading_images
       /\ (image_path # None /\ image_path[1] \in loading_images /\ r.workers # workers)
            => /\ loading_images = {image_path[1]}
               /\ Cardinality(r.loading_images) = 2

\* A pass is about to run with two paths in Loading, the current one among
\* them, no pending-current marker and an eligible neighbour in the window;
\* it starts nothing.
C18_Witness ==
  /\ phase = "preload"
  /\ pending_current_load = None
  /\ image_path # None
  /\ image_path[1] \in loading_images
  /\ Cardinality(loading_images) = 2
  /\ EligibleNeighbours # {}
  /\ preload_nearby_images(Self).workers = workers


\* C19 as stated: a preloader pass that finds more than 20 entries in
\* Failed leaves Failed empty.
C19_FailedSweptByNextPass ==
  phase = "preload" /\ Cardinality(failed_images) > FailedSweepLimit
    => preload_nearby_images(Self).failed_images = {}


\* The preloader pass returns before its scan and its sweeps.
PassCutShort ==
  \/ files = <<>>
  \/ pending_current_load # None
  \/ Cardinality(loading_images) >= max_concurrent_loads

\* C19 amended: a preloader pass that finds more than 20 entries in Failed
\* and is not cut short leaves Failed empty; a pass that is cut short leaves
\* Failed as it is.
C19_FailedSweptByNextFullPass ==
  phase = "preload" /\ Cardinality(failed_images) > FailedSweepLimit =>
    LET r == preload_nearby_images(Self)
    IN IF PassCutShort
         THEN r.failed_images = failed_images
         ELSE r.failed_images = {}

\* The whole listing has been walked with every decode failing, and a pass
\* has emptied Failed.
C19_Witness ==
  /\ phase = "input"
  /\ selected = Len(files) - 1
  /\ Len(files) > FailedSweepLimit
  /\ Cardinality(loading_images) <= 1
  /\ loaded_images = {}
  /\ failed_images = {}


\* The paths of the files in the listing.
ListedPaths == { join(Dir, files[k]) : k \in 1..Len(files) }

StatusTable(is_image, has_graphics, in_loading, in_failed, has_handle) ==
  CASE ~is_image -> "NotImage"
    [] is_image /\ ~has_graphics -> "UnsupportedTerminal"
    [] is_image /\ has_graphics /\ in_loading -> "Loading"
    [] is_image /\ has_graphics /\ ~in_loading /\ in_failed -> "Failed"
    [] is_image /\ has_graphics /\ ~in_loading /\ ~in_failed /\ has_handle -> "Loaded"
    [] OTHER -> "Loading"

\* C21: the derived status of the current selection is the table's value
\* for (image-type extension, graphics capability, in Loading, in Failed,
\* handle present), and NotImage when there is no current path.
C21_StatusIsPriorityTable ==
  get_image_load_status(Self) =
    IF image_path = None THEN "NotImage"
    ELSE StatusTable(is_image_file(image_path[1]),
                     image_picker,
                     image_path[1] \in loading_images,
                     image_path[1] \in failed_images,
                     image_state # None)

\* The current path is in Failed while a handle is still installed: Failed
\* wins over Loaded.
C21_Witness ==
  /\ image_path # None
  /\ image_path[1] \in failed_images
  /\ image_state # None
  /\ get_image_load_status(Self) = "Failed"


\* C22: without a terminal graphics capability no task is ever started, so
\* Loading stays empty and no event is ever in the channel, and the status
\* of an image-type selection is UnsupportedTerminal.
C22_NoGraphicsNoDecode ==
  ~image_picker =>
    /\ workers = EmptyBag
    /\ channel = <<>>
    /\ loading_images = {}
    /\ failed_images = {} /\ loaded_images = {}
    /\ image_state = None
    /\ (image_path # None /\ is_image_file(image_path[1]))
         => get_image_load_status(Self) = "UnsupportedTerminal"

\* Without graphics, the selection controller and the preloader have both
\* run with an image selected.
C22_Witness ==
  /\ ~image_picker
  /\ phase = "input"
  /\ image_path # None
  /\ is_image_file(image_path[1])
  /\ previous_selected = selected
  /\ Len(files) > 1


\* A Priority refresh of the current path p is in flight (p is in Loaded and
\* in Loading) and a handle is installed: the selection of p kept the
\* handle, which it does only for the last-displayed path in Loaded.
RefreshingWithHandle(p) ==
  /\ image_path = Some(p)
  /\ p \in loaded_images
  /\ p \in loading_images
  /\ image_state # None

\* C23 as stated: from the return to the last-displayed, Loaded path until
\* its Priority refresh is drained, no step takes the handle from present to
\* empty.
C23_HandleKeptUntilRefreshDrained ==
  [][\A p \in AllPaths : RefreshingWithHandle(p) => image_state' # None]_vars

\* C23 amended: the return to the last-displayed, Loaded path leaves the
\* handle as it is, and while that path stays the current path during its
\* refresh no step takes the handle from present to empty.
C23_HandleKeptWhileSelected ==
  /\ []((/\ SelectionChanges /\ selected < Len(files)
         /\ last_loaded_path = Some(NewPath)
         /\ NewPath \in loaded_images)
        => \A ok \in BOOLEAN : update_selection(Self, ok).image_state = image_state)
  /\ [][\A p \in AllPaths :
          RefreshingWithHandle(p) /\ image_path' = image_path
            => image_state' # None]_vars

\* The Priority refresh of the revisited current path is running with the
\* earlier handle still installed.
C23_Witness ==
  /\ phase = "input"
  /\ \E p \in AllPaths :
       /\ RefreshingWithHandle(p)
       /\ CopiesIn(Task(p, "Priority"), workers) = 1


\* The current path is Loaded and its own handle is displayed; the frame's
\* passes have run and the loop is polling input.
Displayed ==
  /\ phase = "input"
  /\ selected = previous_selected
  /\ focused_panel = "Left"
  /\ image_path # None
  /\ image_state # None
  /\ image_state[1].of = image_path[1]
  /\ image_path[1] \in loaded_images

\* The frame after key k: input, drain, selection controller, preloader.
AwayFrame(k, ok) ==
  preload_nearby_images(
    update_selection(process_image_load_events(handle_input(Self, k, 0)), ok))

BackKey(k) == IF k = "Down" THEN "Up" ELSE "Down"

\* The next frame after the opposite key, up to and including its drain,
\* and then its selection controller pass.
ReturnDrained(k, ok) ==
  process_image_load_events(handle_input(AwayFrame(k, ok), BackKey(k), 0))

Returned(k, ok1, ok2) == update_selection(ReturnDrained(k, ok1), ok2)

\* C24 as stated: a Loaded, displayed path is left and re-selected in the
\* next frame; on return exactly one Priority task and no Normal task is
\* started for it, and the handle displayed for it before is the active
\* handle.
C24_ReturnKeepsEarlierHandle ==
  Displayed =>
    \A k \in {"Down", "Up"}, ok1, ok2 \in BOOLEAN :
      AwayFrame(k, ok1).selected # selected =>
        LET d == ReturnDrained(k, ok1)
            r == Returned(k, ok1, ok2)
            P == image_path[1]
        IN /\ r.image_path = image_path
           /\ CopiesIn(Task(P, "Priority"), r.workers)
                = CopiesIn(Task(P, "Priority"), d.workers) + 1
           /\ CopiesIn(Task(P, "Normal"), r.workers)
                = CopiesIn(Task(P, "Normal"), workers)
           /\ r.image_state = image_state

\* C24 amended: on return no Normal task is started for the path and one
\* Priority task is, unless a refresh of it is still in flight; the return
\* keeps whatever handle the selection made in between left active when
\* the path is still last-displayed, and clears it otherwise.
C24_ReturnRefreshesWithPriority ==
  /\ (SelectionChanges /\ selected < Len(files) /\ NewPath \in loaded_images) =>
       \A ok \in BOOLEAN :
         LET u == update_selection(Self, ok)
         IN /\ u.workers = IF NewPath \in loading_images
                             THEN workers
                             ELSE workers (+) SetToBag({Task(NewPath, "Priority")})
            /\ u.image_state = IF last_loaded_path = Some(NewPath)
                                 THEN image_state ELSE None
  /\ Displayed =>
       \A k \in {"Down", "Up"}, ok1, ok2 \in BOOLEAN :
         AwayFrame(k, ok1).selected # selected =>
           LET a == AwayFrame(k, ok1)
               d == ReturnDrained(k, ok1)
               r == Returned(k, ok1, ok2)
               P == image_path[1]
           IN /\ r.image_path = image_path
              /\ CopiesIn(Task(P, "Normal"), r.workers)
                   = CopiesIn(Task(P, "Normal"), workers)
              /\ CopiesIn(Task(P, "Priority"), r.workers)
                   = IF P \in d.loading_images
                       THEN CopiesIn(Task(P, "Priority"), d.workers)
                       ELSE CopiesIn(Task(P, "Priority"), d.workers) + 1
              /\ r.image_state =
                   IF d.last_loaded_path = Some(P) THEN a.image_state ELSE None

\* A Loaded, displayed path with another entry to go to, for which going
\* away and back starts its Priority refresh.
C24_Witness ==
  /\ Displayed
  /\ \E k \in {"Down", "Up"} :
       /\ AwayFrame(k, TRUE).selected # selected
       /\ CopiesIn(Task(image_path[1], "Priority"), Returned(k, TRUE, TRUE).workers) = 1
       /\ is_image_file(AwayFrame(k, TRUE).image_path[1])


\* C25: whenever RatatuiUI::run has returned, by quitting or with an error,
\* raw input mode is off and the alternate screen has been left.
C25_TerminalRestoredOnReturn ==
  phase \in {"returned_ok", "returned_err"} => ~raw_mode /\ ~alternate_screen


\* The fields the metadata provider's answer cannot reach.
BesidesMetadata(s) ==
  [s EXCEPT !.cached_metadata_text = None, !.cached_metadata = None]

\* C26: on a selection change to a listed file the pass completes whatever
\* the metadata provider answers: path, load decision and previous index
\* are the same for an error as for a result, an error asked of the
\* provider yields the error string naming the file, and the text is cached
\* under the file name so that a second request for the same name returns
\* it without the provider's answer mattering.
C26_MetadataNeverFails ==
  (SelectionChanges /\ selected < Len(files)) =>
    LET f == FileAt(files, selected)
        good == update_selection(Self, TRUE)
        bad == update_selection(Self, FALSE)
        asked == cached_metadata = None \/ cached_metadata[1][1] # f
    IN /\ BesidesMetadata(bad) = BesidesMetadata(good)
       /\ bad.image_path = Some(NewPath)
       /\ bad.previous_selected = selected
       /\ asked => bad.cached_metadata_text =
                     [kind |-> "Error reading metadata for: ", file |-> Some(f)]
       /\ \A u \in {good, bad} :
            /\ u.cached_metadata = Some(<<f, u.cached_metadata_text>>)
            /\ \A again \in BOOLEAN :
                 get_metadata_for_display(u.cached_metadata, f, again)
                   = <<u.cached_metadata_text, u.cached_metadata>>

\* The provider failed for the selected image: the error text names it, and
\* the pass went on to start its load.
C26_Witness ==
  /\ phase = "preload"
  /\ previous_selected = selected
  /\ image_path # None
  /\ image_path[1] \in loading_images
  /\ cached_metadata_text =
       [kind |-> "Error reading metadata for: ", file |-> Some(image_path[1][2])]

\* The filter a tier is to downscale with.
TierFilter(tier) == IF tier = "Normal" THEN "Triangle" ELSE "Nearest"

\* The decoded image fits the target of the request.
Fits ==
  /\ decode.img.width <= decode.target[1]
  /\ decode.img.height <= decode.target[2]

\* C27: a decode that downscaled used Triangle for a Normal-tier request and
\* Nearest for a Priority-tier request, whichever decode path produced the
\* image, and an image that fits the target was not resized.
C27_FilterFollowsTier ==
  (decode.pc = "returned" /\ decode.result = "Ok")
    => /\ decode.resize # None => decode.resize = Some(TierFilter(decode.tier))
       /\ Fits => decode.resize = None

\* C28: for every terminal size, known or unknown, the target of a decode
\* request is at most 600x400 for the Normal tier and at most 500x350 for the
\* Priority tier, the Priority target is at most the Normal target for the
\* same terminal size, and width * 8 and height * 16 stay within 32 bits, so
\* that the target is the exact product capped.
C28_TargetWithinCaps ==
  decode.pc = "returned" =>
    LET w == decode.terminal_width
        h == decode.terminal_height
        normal == IF decode.tier = "Normal"
                    THEN decode.target ELSE target_size("Normal", w, h)
        priority == IF decode.tier = "Priority"
                      THEN decode.target ELSE target_size("Priority", w, h)
    IN  /\ normal[1] <= 600 /\ normal[2] <= 400
        /\ priority[1] <= 500 /\ priority[2] <= 350
        /\ priority[1] <= normal[1] /\ priority[2] <= normal[2]
        /\ (w # None /\ h # None)
             => /\ ~exceeds_u32(w[1] * 8) /\ ~exceeds_u32(h[1] * 16)
                /\ normal = << Min(w[1] * 8, 600), Min(h[1] * 16, 400) >>
                /\ priority = << Min(w[1] * 8, 500), Min(h[1] * 16, 350) >>

\* A Priority-tier decode for the largest terminal has returned.
C28_Witness ==
  /\ decode.pc = "returned" /\ decode.tier = "Priority"
  /\ decode.terminal_width = Some(U16_MAX)
  /\ decode.terminal_height = Some(U16_MAX)
  /\ decode.target = << 500, 350 >>

\* The channel with the events at positions i and j exchanged.
Exchanged(ch, i, j) ==
  [ k \in DOMAIN ch |-> IF k = i THEN ch[j] ELSE IF k = j THEN ch[i] ELSE ch[k] ]

\* What C29 compares between two drains.
DrainOutcome(s) ==
  << s.loading_images, s.failed_images, s.loaded_images, s.image_state,
     s.pending_current_load >>

\* C29: when the results of two requests on distinct paths wait in the
\* channel, draining them in the order they arrived and draining them in the
\* opposite order give the same Loading, Failed and Loaded sets, the same
\* active handle and the same pending-current marker.
C29_DrainOrderIrrelevant ==
  \A i, j \in DOMAIN channel :
    (i < j /\ channel[i].file_path # channel[j].file_path)
      => DrainOutcome(process_image_load_events(Self))
           = DrainOutcome(process_image_load_events(
                            [Self EXCEPT !.channel = Exchanged(channel, i, j)]))

\* The drain is about to receive two successful results on distinct paths,
\* one of them for the selected image, which is pending.
C29_Witness ==
  /\ phase = "drain"
  /\ image_path # None /\ pending_current_load = image_path
  /\ \E i, j \in DOMAIN channel :
       /\ i < j /\ channel[i].file_path # channel[j].file_path
       /\ channel[i].kind = "LoadComplete" /\ channel[j].kind = "LoadComplete"
       /\ image_path[1] \in {channel[i].file_path, channel[j].file_path}

\* C30: every iteration of the render loop drains the event channel, runs
\* the selection controller and then the preloader before it draws and polls,
\* and every key read is forwarded to the engine's input handler: the work of
\* the loop between its head and its draw is that of the three engine steps in
\* that order, and the work of its poll is that of handle_input.
C30_LoopDrivesEngine ==
  [][ /\ (phase = "browse_top" /\ running)
        => \E ok \in BOOLEAN :
             Self' = preload_nearby_images(
                       update_selection(process_image_load_events(Self), ok))
      /\ phase = "browse_poll"
        => \E key \in Keys, max_scroll \in 0..MaxScroll :
             Self' = handle_input(Self, key, max_scroll) ]_vars

\* C31: whenever the pending-current marker is set it names the selected
\* path and that path is in Loading, so that the preloader is never held back
\* while nothing is pending for the current selection.
C31_PendingNamesLoadingSelection ==
  pending_current_load # None
    => /\ pending_current_load = image_path
       /\ pending_current_load[1] \in loading_images

\* The state the preloader has reached when it comes to its two sweeps (the
\* state it returns when an early return skips them).
before_sweep(s) ==
  IF s.files = <<>> THEN s
  ELSE IF s.pending_current_load # None THEN s
  ELSE IF Cardinality(s.loading_images) >= max_concurrent_loads THEN s
  ELSE preload_scan(s, saturating_sub(s.selected, preload_range),
                    Min(s.selected + preload_range + 1, Len(s.files)))

\* C32: a path leaves Loaded only through the preloader's sweep: the drain,
\* the selection controller with the requests it starts, the input handler
\* and a finishing worker remove nothing from Loaded, and neither does the
\* preloader up to its sweeps, request start included.
C32_LoadedLeavesOnlyBySweep ==
  [][ IF phase = "preload"
        THEN loaded_images \subseteq before_sweep(Self).loaded_images
        ELSE loaded_images \subseteq loaded_images' ]_vars

\* The selection controller has just started a Priority request for the
\* selected path, which is in Loaded.
C32_Witness ==
  /\ phase = "preload"
  /\ image_path # None /\ image_path[1] \in loaded_images
  /\ CopiesIn(Task(image_path[1], "Priority"), workers) = 1

\* C33: after every pass of the selection controller the previous index
\* equals the selected index, and a pass that observed a changed index leaves
\* the metadata scroll offset at zero, for an image, a non-image and an empty
\* list alike.
C33_PassRecordsIndexAndResetsScroll ==
  phase = "select" =>
    \A ok \in BOOLEAN :
      LET u == update_selection(Self, ok)
      IN /\ u.previous_selected = u.selected
         /\ u.selected = selected
         /\ selected # previous_selected => u.mid_scroll = 0

\* The controller is about to run on a changed index with the metadata panel
\* scrolled, the new selection being a file that is not an image.
C33_Witness ==
  /\ SelectionChanges
  /\ mid_scroll > 0
  /\ selected < Len(files) /\ ~is_image_file(NewPath)

\* C34: the drain never waits: it handles the events that are in the channel
\* when it runs, in channel order, leaves the channel empty, takes nothing
\* from the tasks that are still running, and changes nothing when the
\* channel was empty.
C34_DrainNeverWaits ==
  phase = "drain" =>
    LET t == process_image_load_events(Self)
    IN /\ t.channel = <<>>
       /\ t.workers = workers
       /\ t = drain_prefix(Self, Len(channel))
       /\ channel = <<>> => t = Self

\* The drain is about to run with events waiting and a task still running.
C34_Witness ==
  /\ phase = "drain"
  /\ Len(channel) >= 2
  /\ workers # EmptyBag

\* C35: Loading is exactly the set of paths with an outstanding request (a
\* running task or an event not yet drained); and, every task reporting and
\* the loop running on, a path in Loading is eventually out of it.
C35_LoadingIsOutstanding ==
  /\ [](loading_images = { p \in AllPaths : Outstanding(p) > 0 })
  /\ \A p \in AllPaths :
       (p \in loading_images) ~> (p \notin loading_images)

\* One path is in Loading with its task running while another's load has
\* been resolved and drained.
C35_Witness ==
  /\ \E p \in loading_images : RunningFor(p) = 1
  /\ loaded_images \cup failed_images # {}
  /\ channel = <<>>

\* C36: in every reachable state no path is in both Loaded and Failed,
\* also after the Priority refresh of a Loaded path has failed.
C36_LoadedFailedDisjoint == loaded_images \cap failed_images = {}

\* The failure of the refresh of the Loaded path p is being drained.
FailedRefreshDrained(p) ==
  /\ phase = "drain" /\ phase' = "select"
  /\ p \in loaded_images /\ p \notin failed_images
  /\ \E i \in DOMAIN channel :
       channel[i].kind = "LoadError" /\ channel[i].file_path = p

\* C36 as it holds: a path comes to be in both Loaded and Failed exactly
\* when the failure of the refresh of a Loaded path is drained: the path
\* stays in Loaded and is put in Failed.
C36_BothOnlyByFailedRefresh ==
  [][ \A p \in AllPaths :
        ( /\ p \in loaded_images' \cap failed_images'
          /\ p \notin loaded_images \cap failed_images )
          <=> FailedRefreshDrained(p) ]_vars

\* A path is in both Loaded and Failed and is the current selection.
C36_Witness ==
  \E p \in loaded_images \cap failed_images : image_path = Some(p)

\* C37: with graphics available, whenever the status derived for the current
\* selection at the end of a frame (drain, selection controller and preloader
\* have run) is Loading, a decode request for that path is outstanding.
C37_LoadingStatusHasRequest ==
  ( /\ phase = "input"
    /\ image_picker
    /\ image_path # None
    /\ get_image_load_status(Self) = "Loading" )
    => Outstanding(image_path[1]) > 0

\* The request outstanding for p is of Priority tier: its Priority task is
\* running, or its event waits in the channel, no Normal task runs for p and a
\* waiting LoadComplete carries a protocol decoded at Priority tier.
OutstandingIsPriority(p) ==
  /\ CopiesIn(Task(p, "Normal"), workers) = 0
  /\ \/ CopiesIn(Task(p, "Priority"), workers) = 1
     \/ \E i \in DOMAIN channel : channel[i].file_path = p
  /\ \A i \in DOMAIN channel :
       (channel[i].file_path = p /\ channel[i].kind = "LoadComplete")
         => channel[i].protocol.tier = "Priority"

\* C38: whenever a path is in both Loading and Loaded its outstanding request
\* is of Priority tier; a Normal request is started only for a path that is
\* not in Loaded; and a path enters Loaded only in the step in which it
\* leaves Loading.
C38_LoadingAndLoadedIsPriority ==
  /\ [](\A p \in loading_images \cap loaded_images : OutstandingIsPriority(p))
  /\ [][ \A p \in AllPaths :
           /\ CopiesIn(Task(p, "Normal"), workers')
                > CopiesIn(Task(p, "Normal"), workers)
                => p \notin loaded_images
           /\ (p \in loaded_images' /\ p \notin loaded_images)
                => (p \in loading_images /\ p \notin loading_images') ]_vars

\* A Loaded path is being refreshed: it is in Loading as well, and its
\* Priority task is running.
C38_Witness ==
  \E p \in loading_images \cap loaded_images :
    CopiesIn(Task(p, "Priority"), workers) = 1

\* C39: after any sequence of keys the selected index is within the listing
\* (0 on an empty listing); Down at the last entry and Up at the first entry
\* leave it where it is.
C39_SelectionStaysInListing ==
  /\ IF files = <<>> THEN selected = 0 ELSE selected \in 0..(Len(files) - 1)
  /\ phase = "input" =>
       \A max_scroll \in 0..MaxScroll :
         /\ selected = saturating_sub(Len(files), 1)
              => handle_input(Self, "Down", max_scroll).selected = selected
         /\ selected = 0
              => handle_input(Self, "Up", max_scroll).selected = selected

\* The file panel is focused at the last of several entries, reached by
\* Down keys, and the next key is about to be read.
C39_Witness ==
  /\ phase = "input"
  /\ focused_panel = "Left"
  /\ Len(files) >= 2
  /\ selected = Len(files) - 1

\* C40: Up/Down are gated by the focus: with the file panel focused they
\* change nothing but the selected index; with the metadata panel focused they
\* change nothing but the scroll offset, which is then within 0..max_scroll
\* for the max_scroll passed in; the focus-switch keys change the focused
\* panel and nothing else.
C40_KeysGatedByFocus ==
  phase = "input" =>
    \A key \in Keys, max_scroll \in 0..MaxScroll :
      LET t == handle_input(Self, key, max_scroll)
      IN /\ (key \in {"Up", "Down"} /\ focused_panel = "Left")
              => t = [Self EXCEPT !.selected = t.selected]
         /\ (key \in {"Up", "Down"} /\ focused_panel = "Middle")
              => /\ t = [Self EXCEPT !.mid_scroll = t.mid_scroll]
                 /\ t.mid_scroll \in 0..max_scroll
         /\ key \in {"Left", "Right"}
              => /\ t = [Self EXCEPT !.focused_panel = t.focused_panel]
                 /\ t.focused_panel # focused_panel

====
